---- MODULE Spec2Model ----
(***************************************************************************)
(* A model of mackerel-plugin-dnsdist (cmd/mackerel-plugin-dnsdist/main.go) *)
(* One process run: main parses the flags, builds the Plugin (URL, API key) *)
(* and hands it to the plugin host, which calls MetricKeyPrefix,            *)
(* GraphDefinition and FetchMetrics.                                        *)
(*                                                                         *)
(* Texts the program inspects character by character (host, port, prefix,  *)
(* configuration file, JSON scalars) are sequences of one-character (or,   *)
(* for the configuration file, one-lexeme) strings; Str joins such a       *)
(* sequence into the string the program holds.                             *)
(***************************************************************************)
EXTENDS Integers, Sequences, FiniteSets, TLC

VARIABLES
    args,       \* outcome of psr.Parse(), once main has run it: [version, err]
    opt,        \* Opt: [Prefix, Port, Host, APIKey]
    confFile,   \* /etc/dnsdist/dnsdist.conf: [readable, buf]
    upstream,   \* what the stats endpoint answers: [kind, status, body]
    pc,         \* position of main: "start", "running" (inside u.Run()), "exited"
    exitCode,   \* os.Exit status, -1 while none
    plugin,     \* Plugin: [Prefix, URL, APIKey]
    keyPrefix,  \* last return of MetricKeyPrefix: [called, value]
    graphs,     \* last return of GraphDefinition: [called, defs]
    fetched,    \* last return of FetchMetrics: [called, isNil, result, err]
    sent,       \* HTTP requests put on the wire by the last FetchMetrics
    bodyLog     \* events on the response body of the last FetchMetrics
    

vars == <<args, opt, confFile, upstream, pc, exitCode, plugin, keyPrefix,
          graphs, fetched, sent, bodyLog>>

-----------------------------------------------------------------------------
(* Bounds of the model *)

MaxHostLen   == 3
MaxPrefixLen == 3
MaxFrags     == 3
MaxStrLen    == 3

-----------------------------------------------------------------------------
(* Text helpers *)

RECURSIVE Str(_)
Str(s) == IF s = <<>> THEN "" ELSE Head(s) \o Str(Tail(s))

SeqsUpTo(S, n) == UNION {[1..k -> S] : k \in 0..n}

RECURSIVE Flatten(_)
Flatten(ss) == IF ss = <<>> THEN <<>> ELSE Head(ss) \o Flatten(Tail(ss))

SetMax(S) == CHOOSE x \in S : \A y \in S : y <= x
SetMin(S) == CHOOSE x \in S : \A y \in S : x <= y

Digits == {"0", "1", "2", "3", "4", "5", "6", "7", "8", "9"}

\* The characters of the literals the program and its inputs are written with.
Chars(k) ==
    CASE k = "http"          -> <<"h", "t", "t", "p">>
      [] k = "/jsonstat"     -> <<"/", "j", "s", "o", "n", "s", "t", "a", "t">>
      [] k = "command=stats" -> <<"c", "o", "m", "m", "a", "n", "d", "=",
                                  "s", "t", "a", "t", "s">>
      [] k = "dnsdist"       -> <<"d", "n", "s", "d", "i", "s", "t">>
      [] k = "8083"          -> <<"8", "0", "8", "3">>
      [] k = "127.0.0.1"     -> <<"1", "2", "7", ".", "0", ".", "0", ".", "1">>
      [] k = "true"          -> <<"t", "r", "u", "e">>
      [] k = "false"         -> <<"f", "a", "l", "s", "e">>
      [] k = "<nil>"         -> <<"<", "n", "i", "l", ">">>
      [] k = "map["          -> <<"m", "a", "p", "[">>

IndexesOf(s, c) == {i \in 1..Len(s) : s[i] = c}

-----------------------------------------------------------------------------
(* Opt.URL: net.JoinHostPort and url.URL.String *)

\* net.JoinHostPort: a host holding a colon or a percent sign is bracketed.
JoinHostPort_NoBrackets(host, port) == host \o <<":">> \o port

JoinHostPort(host, port) ==
    IF \E i \in 1..Len(host) : host[i] \in {":", "%"}
    THEN <<"[">> \o host \o <<"]", ":">> \o port
    ELSE host \o <<":">> \o port

\* net/url shouldEscape in host mode, on the characters of HostChars.
ShouldEscapeHost(c) == c = "%"

\* net/url escape(s, encodeHost): an escaped byte is written %XX.
EscapeHost(s) ==
    Flatten([i \in 1..Len(s) |->
                IF ShouldEscapeHost(s[i]) THEN <<"%", "2", "5">> ELSE <<s[i]>>])

\* url.URL{Scheme, Host, Path, RawQuery}.String()
URLString(u) ==
    u.Scheme \o <<":", "/", "/">> \o EscapeHost(u.Host)
        \o u.Path \o <<"?">> \o u.RawQuery

OptURL(o) ==
    URLString([Scheme   |-> Chars("http"),
               Host     |-> JoinHostPort(o.Host, o.Port),
               Path     |-> Chars("/jsonstat"),
               RawQuery |-> Chars("command=stats")])

-----------------------------------------------------------------------------
(* Opt.GetAPIKey: apiKeyRegexp over the lexemes of the configuration file *)

SWC == "setWebserverConfig("
Q   == "\""
NL  == "\n"

\* \s of the pattern; "." is every lexeme but the newline.
WhiteSpace == {" ", NL}

\* Lexemes that end in a word character (letter, digit, underscore).
WordLexemes == {"apiKey", "password", "k1", "k3", "k4", "pw", "x"}

NoMatch == [cap |-> <<>>, end |-> 0]

NoNewline(s, a, b) == \A t \in a..b : s[t] # NL

\* \b before "apiKey": the character before it is no word character.
WordBoundary(s, k) == k = 1 \/ s[k - 1] \notin WordLexemes

\* \s* is greedy and the lexeme after it is no white space: it eats the run.
SkipWS(s, p) ==
    SetMin({q \in p..(Len(s) + 1) :
               q = Len(s) + 1 \/ s[q] \notin WhiteSpace})

\* \s*=\s*"(.+?)" after the apiKey lexeme at k: the lazy group stops at the
\* first closing quote that leaves it at least one character.
TailCapture(s, k) ==
    LET e == SkipWS(s, k + 1)
        q == IF e <= Len(s) /\ s[e] = "=" THEN SkipWS(s, e + 1) ELSE 0
        ms == IF q # 0 /\ q <= Len(s) /\ s[q] = Q
              THEN {m \in (q + 2)..Len(s) : s[m] = Q /\ NoNewline(s, q + 1, m - 1)}
              ELSE {}
    IN  IF ms = {} THEN NoMatch
        ELSE [cap |-> SubSeq(s, q + 1, SetMin(ms) - 1), end |-> SetMin(ms)]

\* The apiKey lexemes the second ".*" can stop before, having started after
\* the brace at j.
KeysAfter(s, j) ==
    {k \in (j + 1)..Len(s) :
        /\ s[k] = "apiKey"
        /\ NoNewline(s, j + 1, k - 1)
        /\ WordBoundary(s, k)
        /\ TailCapture(s, k) # NoMatch}

\* The match that starts at i, if any: both ".*" are greedy, so of the braces
\* and apiKey lexemes that let the rest match the last ones on the line win.
MatchAt(s, i) ==
    LET js == {j \in (i + 1)..Len(s) :
                  s[j] = "{" /\ NoNewline(s, i + 1, j - 1) /\ KeysAfter(s, j) # {}}
    IN  IF s[i] # SWC \/ js = {} THEN NoMatch
        ELSE TailCapture(s, SetMax(KeysAfter(s, SetMax(js))))

\* apiKeyRegexp.FindAllSubmatch(buf, -1): the successive leftmost matches.
RECURSIVE FindAllFrom(_, _)
FindAllFrom(s, from) ==
    LET is == {i \in from..Len(s) : MatchAt(s, i) # NoMatch}
    IN  IF is = {} THEN <<>>
        ELSE LET m == MatchAt(s, SetMin(is))
             IN  <<m>> \o FindAllFrom(s, m.end + 1)

FindAllSubmatch(s) == FindAllFrom(s, 1)

\* A slip: the explicit key is ignored when the file has one.
GetAPIKey_FileFirst(o, file) ==
    IF file.readable /\ Len(FindAllSubmatch(file.buf)) >= 1
    THEN Str(FindAllSubmatch(file.buf)[1].cap)
    ELSE o.APIKey

GetAPIKey(o, file) ==
    IF o.APIKey # "" THEN o.APIKey
    ELSE IF ~file.readable THEN ""
    ELSE LET res == FindAllSubmatch(file.buf)
         IN  IF Len(res) < 1 THEN "" ELSE Str(res[1].cap)

\* Configuration files: up to MaxFrags fragments, written one after another.
Stmt(k) == <<SWC, "{", "apiKey", "=", Q, k, Q, "}", ")">>
StmtPassword ==
    <<SWC, "{", "password", "=", Q, "pw", Q, ",", " ",
      "apiKey", " ", "=", " ", Q, "k3", Q, "}", ")">>
StmtNoKey == <<SWC, "{", "password", "=", Q, "pw", Q, "}", ")">>
StmtEmptyKey == <<SWC, "{", "apiKey", "=", Q, Q, "}", ")">>
BareKey == <<"apiKey", "=", Q, "k4", Q>>

Fragments ==
    {Stmt("k1"), StmtPassword, StmtNoKey, StmtEmptyKey, BareKey, <<NL>>, <<"x">>}

ConfBuffers == {Flatten(fs) : fs \in SeqsUpTo(Fragments, MaxFrags)}

ConfFiles ==
    {[readable |-> FALSE, buf |-> <<>>]}
        \cup {[readable |-> TRUE, buf |-> b] : b \in ConfBuffers}


-----------------------------------------------------------------------------
(* JSON values as json.Decoder with UseNumber delivers them, fmt's %v and  *)
(* strconv.ParseFloat                                                      *)

\* A decoded value: json.Number and string carry their text, a bool its
\* flag, an array its elements, a nested object its keys and elements.
Val(kind, text, flag, keys, elems) ==
    [kind |-> kind, text |-> text, flag |-> flag, keys |-> keys, elems |-> elems]

NumberV(text) == Val("number", text, FALSE, <<>>, <<>>)
StringV(text) == Val("string", text, FALSE, <<>>, <<>>)
BoolV(b)      == Val("bool", <<>>, b, <<>>, <<>>)
NullV         == Val("null", <<>>, FALSE, <<>>, <<>>)
ArrayV(elems) == Val("array", <<>>, FALSE, <<>>, elems)
ObjectV(keys, elems) == Val("object", <<>>, FALSE, keys, elems)

\* fmt.Sprintf("%v", b)
RECURSIVE Sprint(_)
RECURSIVE SprintElems(_, _, _)
SprintElems(keys, elems, i) ==
    IF i > Len(elems) THEN <<>>
    ELSE (IF i > 1 THEN <<" ">> ELSE <<>>)
            \o (IF keys # <<>> THEN keys[i] \o <<":">> ELSE <<>>)
            \o Sprint(elems[i])
            \o SprintElems(keys, elems, i + 1)

Sprint(v) ==
    CASE v.kind \in {"number", "string"} -> v.text
      [] v.kind = "bool"   -> IF v.flag THEN Chars("true") ELSE Chars("false")
      [] v.kind = "null"   -> Chars("<nil>")
      [] v.kind = "array"  -> <<"[">> \o SprintElems(<<>>, v.elems, 1) \o <<"]">>
      [] v.kind = "object" -> Chars("map[") \o SprintElems(v.keys, v.elems, 1) \o <<"]">>

\* A float64: its class, sign, and for a finite value the decimal
\* mant * 10^exp it was read from, mant without trailing zeros.
Float(class, neg, mant, exp) ==
    [class |-> class, neg |-> neg, mant |-> mant, exp |-> exp]

Lower(c) ==
    CASE c = "I" -> "i" [] c = "N" -> "n" [] c = "F" -> "f" [] c = "A" -> "a"
      [] c = "E" -> "e" [] c = "T" -> "t" [] c = "Y" -> "y"
      [] OTHER -> c

LowerAll(s) == [i \in 1..Len(s) |-> Lower(s[i])]

InfTexts == {<<"i", "n", "f">>, <<"i", "n", "f", "i", "n", "i", "t", "y">>}

DigitVal(c) ==
    CASE c = "0" -> 0 [] c = "1" -> 1 [] c = "2" -> 2 [] c = "3" -> 3
      [] c = "4" -> 4 [] c = "5" -> 5 [] c = "6" -> 6 [] c = "7" -> 7
      [] c = "8" -> 8 [] c = "9" -> 9

RECURSIVE DigitsVal(_)
DigitsVal(ds) ==
    IF ds = <<>> THEN 0
    ELSE 10 * DigitsVal(SubSeq(ds, 1, Len(ds) - 1)) + DigitVal(ds[Len(ds)])

RECURSIVE NumDigits(_)
NumDigits(n) == IF n < 10 THEN 1 ELSE 1 + NumDigits(n \div 10)

RECURSIVE Pow10(_)
Pow10(n) == IF n = 0 THEN 1 ELSE 10 * Pow10(n - 1)

\* The first nine digits of math.MaxFloat64 = 1.7976931348623157e308.
MaxFloat64Lead == 179769313
MaxFloat64Exp  == 308
\* Below the smallest denormal, 4.9e-324, a value rounds to zero.
MinFloat64Exp  == -324

RECURSIVE Normalise(_, _, _)
Normalise(neg, mant, exp) ==
    IF mant = 0 THEN Float("finite", neg, 0, 0)
    ELSE IF mant % 10 = 0 THEN Normalise(neg, mant \div 10, exp + 1)
    ELSE Float("finite", neg, mant, exp)

\* The end of the run of characters of S that starts at i.
RECURSIVE RunEnd(_, _, _)
RunEnd(s, i, S) ==
    IF i <= Len(s) /\ s[i] \in S THEN RunEnd(s, i + 1, S) ELSE i

Failed == [ok |-> FALSE, val |-> Float("nan", FALSE, 0, 0)]
Parsed(f) == [ok |-> TRUE, val |-> f]

\* strconv's special(): inf, infinity (signed or not) and nan, in any case.
Special(s) ==
    IF s = <<>> THEN Failed
    ELSE IF s[1] \in {"+", "-"}
         THEN IF LowerAll(Tail(s)) \in InfTexts
              THEN Parsed(Float("inf", s[1] = "-", 0, 0)) ELSE Failed
    ELSE IF LowerAll(s) \in InfTexts THEN Parsed(Float("inf", FALSE, 0, 0))
    ELSE IF LowerAll(s) = <<"n", "a", "n">> THEN Parsed(Float("nan", FALSE, 0, 0))
    ELSE Failed

\* strconv's readFloat on a decimal text, then the range check of atof64:
\* a value above MaxFloat64 is ErrRange, one below the denormals is zero.
ReadFloat(s) ==
    LET neg   == s # <<>> /\ s[1] = "-"
        i0    == IF s # <<>> /\ s[1] \in {"+", "-"} THEN 2 ELSE 1
        i1    == RunEnd(s, i0, Digits)
        dot   == i1 <= Len(s) /\ s[i1] = "."
        i2    == IF dot THEN RunEnd(s, i1 + 1, Digits) ELSE i1
        ip    == SubSeq(s, i0, i1 - 1)
        fp    == IF dot THEN SubSeq(s, i1 + 1, i2 - 1) ELSE <<>>
        hasE  == i2 <= Len(s) /\ Lower(s[i2]) = "e"
        e0    == IF hasE /\ i2 + 1 <= Len(s) /\ s[i2 + 1] \in {"+", "-"}
                 THEN i2 + 2 ELSE i2 + 1
        eneg  == hasE /\ i2 + 1 <= Len(s) /\ s[i2 + 1] = "-"
        e1    == IF hasE THEN RunEnd(s, e0, Digits) ELSE i2
        ed    == IF hasE THEN SubSeq(s, e0, e1 - 1) ELSE <<>>
        ev    == IF eneg THEN 0 - DigitsVal(ed) ELSE DigitsVal(ed)
        f     == Normalise(neg, DigitsVal(ip \o fp), ev - Len(fp))
        order == NumDigits(f.mant) + f.exp - 1
        lead  == f.mant * Pow10(9 - NumDigits(f.mant))
    IN  IF ip \o fp = <<>> \/ (hasE /\ ed = <<>>) \/ e1 # Len(s) + 1
        THEN Failed
        ELSE IF f.mant = 0 THEN Parsed(f)
        ELSE IF order > MaxFloat64Exp
                  \/ (order = MaxFloat64Exp /\ lead > MaxFloat64Lead)
             THEN Failed
        ELSE IF order < MinFloat64Exp THEN Parsed(Float("finite", neg, 0, 0))
        ELSE Parsed(f)

\* strconv.ParseFloat(s, 64)
ParseFloat(s) == IF Special(s).ok THEN Special(s) ELSE ReadFloat(s)


-----------------------------------------------------------------------------
(* Plugin.FetchMetrics *)

\* net/url's validOptionalPort: empty, or a colon and digits.
ValidOptionalPort(cp) ==
    cp = <<>> \/ (cp[1] = ":" /\ \A i \in 2..Len(cp) : cp[i] \in Digits)

\* net/url's parseHost on the authority of the URL.
ParseHostOK(auth) ==
    IF auth # <<>> /\ auth[1] = "["
    THEN /\ IndexesOf(auth, "]") # {}
         /\ ValidOptionalPort(
                SubSeq(auth, SetMax(IndexesOf(auth, "]")) + 1, Len(auth)))
    ELSE \/ IndexesOf(auth, ":") = {}
         \/ ValidOptionalPort(
                SubSeq(auth, SetMax(IndexesOf(auth, ":")), Len(auth)))

\* url.Parse as http.NewRequest runs it on scheme://authority/path?query.
ParseURLOK(u) ==
    LET q    == SetMin(IndexesOf(u, "?") \cup {Len(u) + 1})
        pre  == SubSeq(u, 1, q - 1)
        c    == SetMin(IndexesOf(pre, ":") \cup {Len(pre) + 1})
        a0   == c + 3
        a1   == SetMin({i \in IndexesOf(pre, "/") : i >= a0} \cup {Len(pre) + 1})
    IN  /\ c + 2 <= Len(pre)
        /\ pre[c + 1] = "/" /\ pre[c + 2] = "/"
        /\ ParseHostOK(SubSeq(pre, a0, a1 - 1))

\* http.NewRequest("GET", p.URL, nil): a request with an empty header, or an
\* error when the URL does not parse.
NewRequest(url) ==
    [ok  |-> ParseURLOK(url),
     req |-> [method |-> "GET", url |-> url, header |-> <<>>]]

\* http.Header.Add: the value is appended to the values of the name.
HeaderAdd(h, name, value) == Append(h, [name |-> name, value |-> value])

HeaderValues(h, name) ==
    LET sel == SelectSeq(h, LAMBDA e : e.name = name)
    IN  [i \in 1..Len(sel) |-> sel[i].value]

\* A slip: the header is added whether or not there is a key.
WithAPIKey_Always(req, key) ==
    [req EXCEPT !.header = HeaderAdd(@, "X-API-Key", key)]

WithAPIKey(req, key) ==
    IF key # "" THEN [req EXCEPT !.header = HeaderAdd(@, "X-API-Key", key)]
    ELSE req

\* The CheckRedirect of Plugin.httpClient; the slip lets the client follow.
CheckRedirect_Follow == "nil"

CheckRedirect == "ErrUseLastResponse"

RedirectStatuses == {301, 302, 303, 307, 308}

\* What the redirect's Location answers, were it requested.
RedirectTarget ==
    [status |-> 200,
     body   |-> [kind |-> "object",
                 fields |-> [k \in {"redirected"} |-> NumberV(<<"1">>)]]]

NoResponse == [status |-> 0, body |-> [kind |-> "invalid", fields |-> <<>>]]

\* A slip: a failed request is sent once more.
ClientDo_Retry(req, up) ==
    IF up.kind = "neterr"
    THEN [sent |-> <<req, req>>, err |-> TRUE, resp |-> NoResponse]
    ELSE [sent |-> <<req>>, err |-> FALSE,
          resp |-> [status |-> up.status, body |-> up.body]]

\* p.httpClient().Do(req): one request; at a redirect response the client
\* asks CheckRedirect, and on ErrUseLastResponse returns that response with
\* its body open and no error.
ClientDo(req, up) ==
    IF up.kind = "neterr"
    THEN [sent |-> <<req>>, err |-> TRUE, resp |-> NoResponse]
    ELSE IF up.status \in RedirectStatuses /\ CheckRedirect = "nil"
    THEN [sent |-> <<req, [req EXCEPT !.url = <<"Location">>]>>,
          err |-> FALSE, resp |-> RedirectTarget]
    ELSE IF up.status \in RedirectStatuses /\ CheckRedirect # "ErrUseLastResponse"
    THEN [sent |-> <<req>>, err |-> TRUE, resp |-> NoResponse]
    ELSE [sent |-> <<req>>, err |-> FALSE,
          resp |-> [status |-> up.status, body |-> up.body]]

\* decoder.Decode(&t) into map[string]interface{}: a JSON object fills the
\* map, null leaves it empty, anything else is an error.
Decode(body) ==
    CASE body.kind = "object" -> [ok |-> TRUE, t |-> body.fields]
      [] body.kind = "null"   -> [ok |-> TRUE, t |-> <<>>]
      [] OTHER                -> [ok |-> FALSE, t |-> <<>>]

\* A slip: a field that does not convert is kept as zero.
Coerce_ZeroOnFailure(t) ==
    [k \in DOMAIN t |->
        IF ParseFloat(Sprint(t[k])).ok THEN ParseFloat(Sprint(t[k])).val
        ELSE Float("finite", FALSE, 0, 0)]

\* The loop over the decoded fields: a field that does not convert is skipped.
Coerce(t) ==
    [k \in {f \in DOMAIN t : ParseFloat(Sprint(t[f])).ok} |->
        ParseFloat(Sprint(t[k])).val]

\* A slip: Close is called where it is written, not deferred.
DeferClose_Immediate(events) == <<"close">> \o events

\* defer res.Body.Close(): Close runs as FetchMetrics returns, after what the
\* function did to the body.
DeferClose(events) == events \o <<"close">>

Returned(isNil, result, err, gotResp, status, reqs, events) ==
    [called |-> TRUE, isNil |-> isNil, result |-> result, err |-> err,
     gotResp |-> gotResp, status |-> status, sent |-> reqs, bodyLog |-> events]

FetchMetricsCall(p, up) ==
    LET nr  == NewRequest(p.URL)
        req == WithAPIKey(nr.req, p.APIKey)
        do  == ClientDo(req, up)
        dec == Decode(do.resp.body)
    IN  IF ~nr.ok THEN Returned(TRUE, <<>>, TRUE, FALSE, 0, <<>>, <<>>)
        ELSE IF do.err THEN Returned(TRUE, <<>>, TRUE, FALSE, 0, do.sent, <<>>)
        ELSE IF ~dec.ok
        THEN Returned(TRUE, <<>>, TRUE, TRUE, do.resp.status, do.sent,
                      DeferClose(<<"read">>))
        ELSE Returned(FALSE, Coerce(dec.t), FALSE, TRUE, do.resp.status, do.sent,
                      DeferClose(<<"read">>))


-----------------------------------------------------------------------------
(* Plugin.MetricKeyPrefix and Plugin.GraphDefinition *)

\* strings.Title's isSeparator: letters, digits and the underscore are not.
IsSeparator(c) == c \in {"-", " ", ".", ":"}

Upper(c) ==
    CASE c = "d" -> "D" [] c = "n" -> "N" [] c = "s" -> "S" [] c = "i" -> "I"
      [] c = "t" -> "T" [] c = "f" -> "F" [] c = "o" -> "O"
      [] OTHER -> c

\* strings.Title: the letter that starts a word is put in title case.
Title(s) ==
    [i \in 1..Len(s) |->
        IF i = 1 \/ IsSeparator(s[i - 1]) THEN Upper(s[i]) ELSE s[i]]

\* mp.Metrics{Name, Label, Stacked, Diff}; a field left out is false.
Metric(name, label, stacked, diff) ==
    [Name |-> name, Label |-> label, Stacked |-> stacked, Diff |-> diff]

Graph(label, metrics) ==
    [Label |-> label, Unit |-> "integer", Metrics |-> metrics]

GraphKeys ==
    {"acl-drop", "cache", "downstream-errors", "latency", "queries",
     "responses", "rule", "fd"}

\* The map GraphDefinition returns for the prefix the Plugin holds.
GraphDefinition(p) ==
    LET labelPrefix == Str(Title(p.Prefix))
    IN  [g \in GraphKeys |->
          CASE g = "acl-drop" ->
                 Graph(labelPrefix \o ": Dropped packets becaused of the ACL",
                       <<Metric("acl-drops", "Dropped", FALSE, TRUE)>>)
            [] g = "cache" ->
                 Graph(labelPrefix \o ": Packet Cache",
                       <<Metric("cache-hits", "Hits", TRUE, TRUE),
                         Metric("cache-misses", "Misses", TRUE, TRUE)>>)
            [] g = "downstream-errors" ->
                 Graph(labelPrefix \o ": Backend errors",
                       <<Metric("downstream-send-errors", "Send error", FALSE, TRUE),
                         Metric("downstream-timeouts", "Timeouts", FALSE, TRUE)>>)
            [] g = "latency" ->
                 Graph(labelPrefix \o ": Latency (microseconds)",
                       <<Metric("latency-avg1000000", "Latency1000000", FALSE, FALSE)>>)
            [] g = "queries" ->
                 Graph(labelPrefix \o ": Queries",
                       <<Metric("queries", "Queries", FALSE, TRUE),
                         Metric("rdqueries", "Query widh rd bit", FALSE, TRUE)>>)
            [] g = "responses" ->
                 Graph(labelPrefix \o ": Response",
                       <<Metric("responses", "Backend responses", FALSE, TRUE),
                         Metric("self-answered", "Self answered", FALSE, TRUE),
                         Metric("servfail-responses", "Backend servfail", FALSE, TRUE)>>)
            [] g = "rule" ->
                 Graph(labelPrefix \o ": Returned because of rules",
                       <<Metric("rule-drop", "Drop", TRUE, TRUE),
                         Metric("rule-nxdomain", "Nxdomain", TRUE, TRUE),
                         Metric("rule-refused", "Refused", TRUE, TRUE),
                         Metric("rule-servfail", "Servfail", TRUE, TRUE),
                         Metric("rule-truncated", "Truncated", TRUE, TRUE)>>)
            [] g = "fd" ->
                 Graph(labelPrefix \o ": FD usage",
                       <<Metric("fd-usage", "usage", FALSE, FALSE)>>)]

\* The Plugin after MetricKeyPrefix: an empty Prefix is set to "dnsdist".
PrefixDefaulted(p) ==
    IF p.Prefix = <<>> THEN [p EXCEPT !.Prefix = Chars("dnsdist")] ELSE p

-----------------------------------------------------------------------------
(* Inputs of a run *)

StatusCodeOK      == 0
StatusCodeWARNING == 1

\* psr.Parse(): the version flag may be set, the arguments may be in error.
ArgOutcomes == [version : BOOLEAN, err : BOOLEAN]

\* The flag defaults of Opt.
DefaultOpt ==
    [Prefix |-> Chars("dnsdist"), Port |-> Chars("8083"),
     Host |-> Chars("127.0.0.1"), APIKey |-> ""]

HostChars == {"a", "1", ".", "-", ":", "%"}
Hosts == SeqsUpTo(HostChars, MaxHostLen) \cup {DefaultOpt.Host}
Ports == {Chars("8083"), <<"d", "n", "s">>, <<>>}

PrefixChars == {"d", "n", "-"}
Prefixes == SeqsUpTo(PrefixChars, MaxPrefixLen) \cup {DefaultOpt.Prefix}

APIKeys == {"", "cli-key"}

Unreadable == [readable |-> FALSE, buf |-> <<>>]

\* JSON numbers: sign, integer part, fraction, exponent.
NumberTexts ==
    {s \o n \o f \o e :
        s \in {<<>>, <<"-">>},
        n \in {<<"0">>, <<"1">>, <<"4", "2">>},
        f \in {<<>>, <<".", "5">>},
        e \in {<<>>, <<"e", "1">>, <<"E", "3", "0", "7">>, <<"e", "3", "0", "9">>,
               <<"e", "-", "4", "0", "0">>}}

StrChars == {"1", ".", "e", "-", "n", "a"}

StringTexts ==
    SeqsUpTo(StrChars, MaxStrLen) \cup NumberTexts
        \cup {<<"i", "n", "f">>, <<"+", "I", "n", "f">>, <<"-", "i", "n", "f">>,
              <<"i", "n", "f", "i", "n", "i", "t", "y">>,
              <<"i", "n", "f", "i", "n">>, <<"5", "5", ".", "5">>,
              <<"N", "a", "N">>, <<"-", "n", "a", "n">>,
              <<" ", "1">>, <<"t", "r", "u", "e">>}

OtherValues ==
    {BoolV(TRUE), BoolV(FALSE), NullV, ArrayV(<<>>),
     ArrayV(<<NumberV(<<"1">>)>>),
     ArrayV(<<NumberV(<<"1">>), NumberV(<<"4", "2">>)>>),
     ObjectV(<<>>, <<>>), ObjectV(<< <<"a">> >>, <<NumberV(<<"1">>)>>)}

AllValues ==
    {NumberV(x) : x \in NumberTexts} \cup {StringV(x) : x \in StringTexts}
        \cup OtherValues

\* The values of the bodies with several fields.
SampleValues ==
    {NumberV(<<"4", "2">>), NumberV(<<"4", "2", "e", "3", "0", "9">>),
     StringV(<<"5", "5", ".", "5">>), StringV(<<"N", "a", "N">>),
     StringV(<<"e">>), BoolV(TRUE), NullV,
     ArrayV(<<NumberV(<<"1">>)>>),
     ObjectV(<< <<"a">> >>, <<NumberV(<<"1">>)>>)}

FieldNames == {"queries", "latency-avg1000000", "acl-drops"}

ObjectBody(fields) == [kind |-> "object", fields |-> fields]

Bodies ==
    {[kind |-> k, fields |-> <<>>] : k \in {"invalid", "nonobject", "null"}}
        \cup {ObjectBody(f) :
                f \in UNION {[D -> SampleValues] : D \in SUBSET FieldNames}}
        \cup {ObjectBody([k \in {"nested"} |-> v]) : v \in AllValues}

Statuses == {200, 301, 500}

NetworkError == [kind |-> "neterr", status |-> 0,
                 body |-> [kind |-> "invalid", fields |-> <<>>]]

Response(status, body) == [kind |-> "resp", status |-> status, body |-> body]

\* The body of the specification's example.
ExampleBody ==
    ObjectBody([k \in FieldNames |->
        CASE k = "queries" -> NumberV(<<"4", "2">>)
          [] k = "latency-avg1000000" -> StringV(<<"5", "5", ".", "5">>)
          [] k = "acl-drops" -> BoolV(TRUE)])

FewUpstreams == {NetworkError, Response(200, ExampleBody)}

AllUpstreams ==
    {NetworkError} \cup {Response(s, b) : s \in Statuses, b \in Bodies}

-----------------------------------------------------------------------------
(* The run *)

NoPlugin == [Prefix |-> <<>>, URL |-> <<>>, APIKey |-> ""]
NotFetched ==
    [called |-> FALSE, isNil |-> TRUE, result |-> <<>>, err |-> FALSE,
     gotResp |-> FALSE, status |-> 0]

InitWith(Opts, Files, Upstreams) ==
    /\ args = [version |-> FALSE, err |-> FALSE]
    /\ opt \in Opts
    /\ confFile \in Files
    /\ upstream \in Upstreams
    /\ pc = "start"
    /\ exitCode = -1
    /\ plugin = NoPlugin
    /\ keyPrefix = [called |-> FALSE, value |-> <<>>]
    /\ graphs = [called |-> FALSE, defs |-> <<>>]
    /\ fetched = NotFetched
    /\ sent = <<>>
    /\ bodyLog = <<>>

\* main: psr.Parse() sets the version flag or reports an error, or neither;
\* the version flag exits with StatusCodeOK, an argument error with
\* StatusCodeWARNING; otherwise the Plugin is built and run.
Main ==
    /\ pc = "start"
    /\ args' \in ArgOutcomes
    /\ IF args'.version
       THEN pc' = "exited" /\ exitCode' = StatusCodeOK /\ plugin' = plugin
       ELSE IF args'.err
       THEN pc' = "exited" /\ exitCode' = StatusCodeWARNING /\ plugin' = plugin
       ELSE /\ pc' = "running"
            /\ exitCode' = exitCode
            /\ plugin' = [Prefix |-> opt.Prefix,
                          URL    |-> OptURL(opt),
                          APIKey |-> GetAPIKey(opt, confFile)]
    /\ UNCHANGED <<opt, confFile, upstream, keyPrefix, graphs, fetched,
                   sent, bodyLog>>

\* The plugin host calls Plugin.MetricKeyPrefix.
MetricKeyPrefix ==
    /\ pc = "running"
    /\ plugin' = PrefixDefaulted(plugin)
    /\ keyPrefix' = [called |-> TRUE, value |-> PrefixDefaulted(plugin).Prefix]
    /\ UNCHANGED <<args, opt, confFile, upstream, pc, exitCode, graphs, fetched,
                   sent, bodyLog>>

\* The plugin host calls Plugin.GraphDefinition.
CallGraphDefinition ==
    /\ pc = "running"
    /\ graphs' = [called |-> TRUE, defs |-> GraphDefinition(plugin)]
    /\ UNCHANGED <<args, opt, confFile, upstream, pc, exitCode, plugin,
                   keyPrefix, fetched, sent, bodyLog>>

\* The plugin host calls Plugin.FetchMetrics.
FetchMetrics ==
    /\ pc = "running"
    /\ LET r == FetchMetricsCall(plugin, upstream)
       IN  /\ fetched' = [called |-> TRUE, isNil |-> r.isNil, result |-> r.result,
                          err |-> r.err, gotResp |-> r.gotResp, status |-> r.status]
           /\ sent' = r.sent
           /\ bodyLog' = r.bodyLog
    /\ UNCHANGED <<args, opt, confFile, upstream, pc, exitCode, plugin,
                   keyPrefix, graphs>>

Next == Main \/ MetricKeyPrefix \/ CallGraphDefinition \/ FetchMetrics

\* Runs that differ in host and port.
InitURL ==
    InitWith({[DefaultOpt EXCEPT !.Host = h, !.Port = p] : h \in Hosts, p \in Ports},
             {Unreadable}, FewUpstreams)
SpecURL == InitURL /\ [][Next]_vars

\* Runs that differ in the explicit key and the configuration file.
InitKey ==
    InitWith({[DefaultOpt EXCEPT !.APIKey = k] : k \in APIKeys},
             ConfFiles, {Response(200, ExampleBody)})
SpecKey == InitKey /\ [][Next]_vars

\* Runs that differ in what the stats endpoint answers.
InitFetch ==
    InitWith({[DefaultOpt EXCEPT !.Port = p] : p \in {Chars("8083"), <<"d", "n", "s">>}},
             {Unreadable}, AllUpstreams)
SpecFetch == InitFetch /\ [][Next]_vars

\* Runs that differ in the metric key prefix.
InitCatalog ==
    InitWith({[DefaultOpt EXCEPT !.Prefix = x] : x \in Prefixes},
             {Unreadable}, FewUpstreams)
SpecCatalog == InitCatalog /\ [][Next]_vars

Init == InitCatalog
Spec == Init /\ [][Next]_vars


-----------------------------------------------------------------------------
(* Properties *)

Ran == pc = "running"

HasDigit(s) == \E i \in 1..Len(s) : s[i] \in Digits

\* No apiKey lexeme follows a setWebserverConfig( lexeme anywhere in the file.
NoApiKeyStatement(buf) ==
    ~\E i \in 1..Len(buf) : \E k \in (i + 1)..Len(buf) :
        buf[i] = SWC /\ buf[k] = "apiKey"

\* C1: key resolution never fails and never ends the run: once the
\* arguments are accepted main is inside u.Run() with no exit status; an
\* explicit key is the Plugin's key whatever the file holds; with no
\* explicit key and a file that is unreadable or holds no apiKey statement
\* the key is empty; and the fetch, once called, still sends its request.
C1_KeyResolutionNeverFails ==
    (pc # "start" /\ ~args.version /\ ~args.err) =>
        /\ pc = "running"
        /\ exitCode = -1
        /\ (opt.APIKey # "" => plugin.APIKey = opt.APIKey)
        /\ (opt.APIKey = "" /\ (~confFile.readable \/ NoApiKeyStatement(confFile.buf))
                => plugin.APIKey = "")
        /\ (fetched.called => Len(sent) = 1)

C1_Witness ==
    /\ Ran
    /\ opt.APIKey = ""
    /\ confFile.readable
    /\ confFile.buf = StmtNoKey
    /\ plugin.APIKey = ""
    /\ fetched.called
    /\ Len(sent) = 1

\* The statements of the file that set apiKey to a non-empty double-quoted
\* string: where each starts, and the key it sets.
StatementEnd(buf, i) ==
    SetMin({c \in i..Len(buf) : buf[c] = ")"} \cup {Len(buf) + 1})

KeyOfStatement(buf, i) ==
    LET ks == {k \in i..StatementEnd(buf, i) :
                  /\ buf[k] = "apiKey"
                  /\ TailCapture(buf, k) # NoMatch
                  /\ TailCapture(buf, k).end <= StatementEnd(buf, i)
                  /\ Len(TailCapture(buf, k).cap) = 1
                  /\ TailCapture(buf, k).cap[1] \in WordLexemes}
    IN  IF buf[i] # SWC \/ i = Len(buf) \/ buf[i + 1] # "{" \/ ks = {} THEN ""
        ELSE TailCapture(buf, SetMin(ks)).cap[1]

KeyStatements(buf) == {i \in 1..Len(buf) : KeyOfStatement(buf, i) # ""}

\* Every apiKey lexeme of the file stands inside one of those statements.
NoStrayKey(buf) ==
    \A k \in 1..Len(buf) :
        buf[k] = "apiKey" =>
            \E i \in KeyStatements(buf) : i < k /\ k < StatementEnd(buf, i)

\* C2: with no explicit key and several statements that set apiKey (and no
\* apiKey outside them), the Plugin's key is the key of the first of them in
\* file order, wherever the statements stand.
C2_FirstStatementWins ==
    (Ran /\ opt.APIKey = "" /\ confFile.readable
         /\ Cardinality(KeyStatements(confFile.buf)) >= 2
         /\ NoStrayKey(confFile.buf))
        => plugin.APIKey = KeyOfStatement(confFile.buf,
                                          SetMin(KeyStatements(confFile.buf)))

\* C3: the request FetchMetrics sends is a GET that carries X-API-Key if and
\* only if the Plugin's key is not empty, then with that key as its only
\* value; with an empty key the request is still sent.
C3_HeaderIffKey ==
    fetched.called =>
        /\ Len(sent) = 1
        /\ sent[1].method = "GET"
        /\ HeaderValues(sent[1].header, "X-API-Key")
              = (IF plugin.APIKey = "" THEN <<>> ELSE <<plugin.APIKey>>)
        /\ Len(sent[1].header) = (IF plugin.APIKey = "" THEN 0 ELSE 1)

C3_Witness ==
    /\ fetched.called
    /\ plugin.APIKey = ""
    /\ Len(sent) = 1
    /\ sent[1].header = <<>>

\* A string no conversion can read as a number: no digit in it, and not one
\* of the spellings of infinity and not-a-number.
NonNumericText(s) ==
    /\ ~HasDigit(s)
    /\ LowerAll(s) \notin InfTexts \cup {<<"n", "a", "n">>}
    /\ (s = <<>> \/ LowerAll(Tail(s)) \notin InfTexts)

NoExponent(s) == \A i \in 1..Len(s) : Lower(s[i]) # "e"

Fin(mant, exp) == Float("finite", FALSE, mant, exp)

\* C4: for a decoded JSON object FetchMetrics returns no error and a map
\* whose keys are the fields whose value converts to a float64, each mapped
\* to that float; a boolean, null, array, object or non-numeric string is
\* dropped, a JSON number without exponent is kept, and no other key appears.
C4_CoercionKeepsNumbersOnly ==
    (fetched.called /\ fetched.gotResp /\ upstream.body.kind = "object") =>
        /\ ~fetched.err
        /\ ~fetched.isNil
        /\ DOMAIN fetched.result \subseteq DOMAIN upstream.body.fields
        /\ \A k \in DOMAIN upstream.body.fields :
              LET v == upstream.body.fields[k]
                  c == ParseFloat(Sprint(v))
              IN  /\ k \in DOMAIN fetched.result <=> c.ok
                  /\ c.ok => fetched.result[k] = c.val
                  /\ v.kind \in {"bool", "null", "array", "object"}
                        => k \notin DOMAIN fetched.result
                  /\ (v.kind = "string" /\ NonNumericText(v.text))
                        => k \notin DOMAIN fetched.result
                  /\ (v.kind = "number" /\ NoExponent(v.text))
                        => k \in DOMAIN fetched.result
        /\ upstream.body = ExampleBody =>
              fetched.result =
                  [k \in {"queries", "latency-avg1000000"} |->
                      IF k = "queries" THEN Fin(42, 0) ELSE Fin(555, -1)]

C4_Witness ==
    /\ fetched.called
    /\ upstream.body = ExampleBody
    /\ ~fetched.err
    /\ DOMAIN fetched.result = {"queries", "latency-avg1000000"}

\* C5: when the request cannot be built (the port is no number), the
\* request fails, or the body is no JSON object, FetchMetrics returns an
\* error and a nil map, and it has sent at most one request: none when the
\* request could not be built.
C5_FailureIsTerminal ==
    fetched.called =>
        /\ Len(sent) <= 1
        /\ (\E i \in 1..Len(opt.Port) : opt.Port[i] \notin Digits)
              => (fetched.err /\ fetched.isNil /\ sent = <<>>)
        /\ (upstream.kind = "neterr"
              \/ upstream.body.kind \in {"invalid", "nonobject"})
              => (fetched.err /\ fetched.isNil /\ fetched.result = <<>>)
        /\ fetched.err => (fetched.isNil /\ fetched.result = <<>>)

C5_Witness ==
    /\ fetched.called
    /\ upstream.kind = "neterr"
    /\ fetched.err
    /\ fetched.isNil
    /\ Len(sent) = 1

\* C6: whatever the status of the response, FetchMetrics has sent exactly
\* one request, to the Plugin's URL, has taken that response as the final
\* one, and returns what it returns for a 200 response with the same body.
C6_StatusIsIgnored ==
    (fetched.called /\ upstream.kind = "resp" /\ ParseURLOK(plugin.URL)) =>
        LET as200 == FetchMetricsCall(plugin, Response(200, upstream.body))
        IN  /\ Len(sent) = 1
            /\ sent[1].url = plugin.URL
            /\ fetched.gotResp
            /\ fetched.status = upstream.status
            /\ fetched.err = as200.err
            /\ fetched.isNil = as200.isNil
            /\ fetched.result = as200.result
            /\ fetched.err <=> upstream.body.kind \in {"invalid", "nonobject"}

C6_Witness ==
    /\ fetched.called
    /\ upstream.kind = "resp"
    /\ upstream.status = 301
    /\ upstream.body = ExampleBody
    /\ ~fetched.err
    /\ Len(sent) = 1
    /\ DOMAIN fetched.result = {"queries", "latency-avg1000000"}

\* C7: when FetchMetrics has obtained a response, its body has been closed
\* exactly once by the time FetchMetrics returns, as the last event on it,
\* after the decoder's read, with or without a decode error; with no
\* response there is no body to touch.
C7_BodyClosedOnEveryPath ==
    fetched.called =>
        IF fetched.gotResp
        THEN /\ bodyLog # <<>>
             /\ bodyLog[Len(bodyLog)] = "close"
             /\ Cardinality(IndexesOf(bodyLog, "close")) = 1
             /\ IndexesOf(bodyLog, "read") # {}
             /\ \A i \in IndexesOf(bodyLog, "read") : i < Len(bodyLog)
        ELSE bodyLog = <<>>

C7_Witness ==
    /\ fetched.called
    /\ fetched.gotResp
    /\ fetched.err
    /\ bodyLog = <<"read", "close">>

\* The table of the specification: graph key -> metrics (name, label,
\* stacked, diff); the labels of "rule" are not spelled out there.
TableMetrics(g) ==
    CASE g = "acl-drop" -> <<Metric("acl-drops", "Dropped", FALSE, TRUE)>>
      [] g = "cache" -> <<Metric("cache-hits", "Hits", TRUE, TRUE),
                          Metric("cache-misses", "Misses", TRUE, TRUE)>>
      [] g = "downstream-errors" ->
            <<Metric("downstream-send-errors", "Send error", FALSE, TRUE),
              Metric("downstream-timeouts", "Timeouts", FALSE, TRUE)>>
      [] g = "latency" ->
            <<Metric("latency-avg1000000", "Latency1000000", FALSE, FALSE)>>
      [] g = "queries" -> <<Metric("queries", "Queries", FALSE, TRUE),
                            Metric("rdqueries", "Query with rd bit", FALSE, TRUE)>>
      [] g = "responses" ->
            <<Metric("responses", "Backend responses", FALSE, TRUE),
              Metric("self-answered", "Self answered", FALSE, TRUE),
              Metric("servfail-responses", "Backend servfail", FALSE, TRUE)>>
      [] g = "rule" -> <<Metric("rule-drop", "", TRUE, TRUE),
                         Metric("rule-nxdomain", "", TRUE, TRUE),
                         Metric("rule-refused", "", TRUE, TRUE),
                         Metric("rule-servfail", "", TRUE, TRUE),
                         Metric("rule-truncated", "", TRUE, TRUE)>>
      [] g = "fd" -> <<Metric("fd-usage", "usage", FALSE, FALSE)>>

SameMetric(g, m, want) ==
    /\ m.Name = want.Name
    /\ m.Stacked = want.Stacked
    /\ m.Diff = want.Diff
    /\ g # "rule" => m.Label = want.Label

\* C8: for every prefix GraphDefinition returns exactly the eight graph keys
\* of the table, each with exactly the table's metrics in the table's order,
\* with the table's name, label, stacked flag and diff flag.
C8_CatalogMatchesTable ==
    graphs.called =>
        /\ DOMAIN graphs.defs =
              {"acl-drop", "cache", "downstream-errors", "latency", "queries",
               "responses", "rule", "fd"}
        /\ \A g \in DOMAIN graphs.defs :
              /\ Len(graphs.defs[g].Metrics) = Len(TableMetrics(g))
              /\ \A i \in 1..Len(TableMetrics(g)) :
                    SameMetric(g, graphs.defs[g].Metrics[i], TableMetrics(g)[i])

\* Host names and IPv4 literals of the model: letters, digits, inner dots
\* and hyphens.
IsHostName(h) ==
    /\ h # <<>>
    /\ \A i \in 1..Len(h) : h[i] \in {"a", "1", ".", "-"}
    /\ h[1] \notin {".", "-"} /\ h[Len(h)] \notin {".", "-"}
    /\ \A i \in 1..(Len(h) - 1) : ~(h[i] = "." /\ h[i + 1] = ".")

\* IPv6 literals of the model: hexadecimal groups around one "::".
IsIPv6Literal(h) ==
    /\ \A i \in 1..Len(h) : h[i] \in {"a", "1", ":"}
    /\ Cardinality({i \in 1..(Len(h) - 1) : h[i] = ":" /\ h[i + 1] = ":"}) = 1
    /\ Cardinality(IndexesOf(h, ":")) = 2

ValidPort(p) == p # <<>> /\ \A i \in 1..Len(p) : p[i] \in Digits

PlainURL(h, p) ==
    "http://" \o Str(h) \o ":" \o Str(p) \o "/jsonstat?command=stats"

RECURSIVE PercentAs25(_)
PercentAs25(h) ==
    IF h = <<>> THEN ""
    ELSE (IF Head(h) = "%" THEN "%25" ELSE Head(h)) \o PercentAs25(Tail(h))

BuiltPlugin == [plugin EXCEPT !.Prefix = opt.Prefix]

\* C10: for every initial Prefix and every order of the host's calls, the
\* catalog GraphDefinition returned is the one it returns after
\* MetricKeyPrefix, and its labels start with the title-cased value that
\* MetricKeyPrefix returned.
C10_CatalogIndependentOfOrder ==
    /\ graphs.called => graphs.defs = GraphDefinition(PrefixDefaulted(BuiltPlugin))
    /\ (graphs.called /\ keyPrefix.called) =>
          graphs.defs["cache"].Label = Str(Title(keyPrefix.value)) \o ": Packet Cache"


====
